---- MODULE Spec2Model ----
(***************************************************************************)
(* A model of the invoice parsers of parse_invoices:                       *)
(*   parse_invoices.py      normalize + regex field extraction (PDF)       *)
(*   ai_invoice_extract.py  normalize + keyword snippet + model call (PDF) *)
(*   parse_csv_invoices.py  row-by-row extraction from CSV exports         *)
(* A text is a sequence of characters, each a one-character string (a few  *)
(* non-ASCII characters carry a name instead: "ZWS", "NBSP", ...).         *)
(***************************************************************************)
EXTENDS Integers, Sequences, FiniteSets, TLC

VARIABLES
    \* normalize on its own: the step, the input, the latest output
    n_pc, n_in, n_out,
    \* the snippet builder: the step, the text read from the document, the text
    \* handed to text_for_llm, its result
    s_pc, s_raw, s_full, s_snippet,
    \* a batch driver: the script that runs, the documents found, the step, the
    \* index of the document at hand, rows and ok of main, the calls made to
    \* the model and their answers, the locals of the last extract_invoice,
    \* the exception that ended main, the rows written, the summary printed,
    \* and raw and the normalized text of the document at hand
    b_script, b_pdfs, b_pc, b_i, b_rows, b_ok, b_calls, b_frame, b_exc, b_out, b_summary,
    b_raw, b_text,
    \* extract_invoice of parse_csv_invoices.py: whether the file opens, its rows,
    \* the step, the number of rows read, the locals section, header and data
    c_readable, c_rows, c_pc, c_pos, c_section, c_header, c_data

nvars == <<n_pc, n_in, n_out>>
svars == <<s_pc, s_raw, s_full, s_snippet>>
bvars == <<b_script, b_pdfs, b_pc, b_i, b_rows, b_ok, b_calls, b_frame, b_exc, b_out, b_summary,
           b_raw, b_text>>
cvars == <<c_readable, c_rows, c_pc, c_pos, c_section, c_header, c_data>>
vars == <<nvars, svars, bvars, cvars>>

(***************************************************************************)
(* Character classes of Python's re on str patterns.                       *)
(***************************************************************************)
LowerAlpha == <<"a","b","c","d","e","f","g","h","i","j","k","l","m",
                "n","o","p","q","r","s","t","u","v","w","x","y","z">>
UpperAlpha == <<"A","B","C","D","E","F","G","H","I","J","K","L","M",
                "N","O","P","Q","R","S","T","U","V","W","X","Y","Z">>
Lowers == {LowerAlpha[k] : k \in 1..26}
Uppers == {UpperAlpha[k] : k \in 1..26}
\* [A-Za-z]
Letters == Lowers \cup Uppers
\* \d
Digits == {"0","1","2","3","4","5","6","7","8","9"}
\* \w
WordChars == Letters \cup Digits \cup {"_"}
\* \s  (U+00A0 is white space for a str pattern)
Whitespace == {" ", "\t", "\n", "\r", "NBSP"}
\* the class of DOT_RUN: . U+2022 U+00B7 U+2219
DotLike == {".", "BULLET", "MIDDOT", "BULLETOP"}

\* both cases of a character, as re.I compares them
CaseVariants(c) ==
    IF c \in Letters
    THEN LET k == CHOOSE j \in 1..26 : LowerAlpha[j] = c \/ UpperAlpha[j] = c
         IN {LowerAlpha[k], UpperAlpha[k]}
    ELSE {c}

(***************************************************************************)
(* Regular expressions as data, and the backtracking matcher of re.        *)
(* Run(ks, s, i, g) matches the expressions ks, one after the other, on s  *)
(* from position i, with the capture groups g so far (<<begin, end>>       *)
(* pairs). It tries the alternatives in the order of re (a greedy repeat   *)
(* takes one more round first, a lazy one stops first) and backs up when   *)
(* what follows fails; the result is the first way that succeeds,          *)
(* [ok |-> TRUE, e |-> the position after the match, g |-> the groups].    *)
(***************************************************************************)
In(cs) == [t |-> "set", cs |-> cs]
NotIn(cs) == [t |-> "nset", cs |-> cs]
Cat(rs) == [t |-> "cat", rs |-> rs]
Alt(rs) == [t |-> "alt", rs |-> rs]
\* r{min,max}, max = -1 for no upper limit; lazy when ~greedy; n counts the rounds
Rep(r, min, max, greedy) ==
    [t |-> "rep", r |-> r, min |-> min, max |-> max, greedy |-> greedy, n |-> 0]
Plus(r) == Rep(r, 1, -1, TRUE)
Star(r) == Rep(r, 0, -1, TRUE)
Opt(r) == Rep(r, 0, 1, TRUE)
Group(n, r) == [t |-> "grp", n |-> n, r |-> r]
\* (?=[cs]) (?![cs]) (?<=[cs]) (?<![cs]) on one character
Look(ahead, neg, cs) == [t |-> "look", ahead |-> ahead, neg |-> neg, cs |-> cs]
\* a literal word under re.I
ILit(w) == Cat([k \in 1..Len(w) |-> In(CaseVariants(w[k]))])

NoGroups == << <<0, 0>>, <<0, 0>> >>
Fail == [ok |-> FALSE, e |-> 0, g |-> NoGroups]

\* a, or b when a failed
OrElse(a, b) == IF a.ok THEN a ELSE b

\* the two ways of a repeat in the order re tries them
InOrder(greedy, more, stop) == IF greedy THEN OrElse(more, stop) ELSE OrElse(stop, more)

\* (?=[cs]) at position i, or (?<=[cs])
LookHit(r, s, i) ==
    IF r.ahead THEN i <= Len(s) /\ s[i] \in r.cs ELSE i > 1 /\ s[i - 1] \in r.cs

\* how many characters from position i on the class c can take, max at most
Taken(c, s, i, max) ==
    LET fits(j) == j <= Len(s) /\ ((s[j] \in c.cs) = (c.t = "set"))
        miss == CHOOSE j \in i..(Len(s) + 1) : ~fits(j) /\ \A x \in i..(j - 1) : fits(x)
    IN IF max = -1 \/ miss - i < max THEN miss - i ELSE max

\* after[k] being how the match goes on when a repeat of one character class
\* has taken k characters: the first that succeeds, from the largest k down
\* (greedy) or from the smallest k up (lazy)
FirstOf(after, greedy) ==
    LET takes == {k \in DOMAIN after : after[k].ok}
    IN IF takes = {} THEN Fail
       ELSE IF greedy THEN after[CHOOSE k \in takes : \A x \in takes : x <= k]
       ELSE after[CHOOSE k \in takes : \A x \in takes : k <= x]

RECURSIVE Run(_, _, _, _)
Run(ks, s, i, g) ==
    IF ks = <<>> THEN [ok |-> TRUE, e |-> i, g |-> g]
    ELSE LET r == Head(ks)
             rest == Tail(ks)
         IN CASE r.t = "set" ->
                   IF i <= Len(s) /\ s[i] \in r.cs THEN Run(rest, s, i + 1, g) ELSE Fail
              [] r.t = "nset" ->
                   IF i <= Len(s) /\ s[i] \notin r.cs THEN Run(rest, s, i + 1, g) ELSE Fail
              [] r.t = "look" ->
                   IF LookHit(r, s, i) # r.neg THEN Run(rest, s, i, g) ELSE Fail
              [] r.t = "cat" -> Run(r.rs \o rest, s, i, g)
              [] r.t = "alt" ->
                   IF r.rs = <<>> THEN Fail
                   ELSE OrElse(Run(<<Head(r.rs)>> \o rest, s, i, g),
                               Run(<<Alt(Tail(r.rs))>> \o rest, s, i, g))
              [] r.t = "rep" ->
                   IF r.n = 0 /\ r.r.t \in {"set", "nset"}
                   THEN FirstOf([k \in r.min..Taken(r.r, s, i, r.max) |->
                                    Run(rest, s, i + k, g)], r.greedy)
                   ELSE InOrder(r.greedy,
                                IF r.max = -1 \/ r.n < r.max
                                THEN Run(<<r.r, [r EXCEPT !.n = r.n + 1]>> \o rest, s, i, g)
                                ELSE Fail,
                                IF r.n >= r.min THEN Run(rest, s, i, g) ELSE Fail)
              [] r.t = "grp" -> Run(<<r.r, [t |-> "end", n |-> r.n, b |-> i]>> \o rest, s, i, g)
              [] r.t = "end" -> Run(rest, s, i, [g EXCEPT ![r.n] = <<r.b, i>>])

\* re.match at position i
Match(r, s, i) == Run(<<r>>, s, i, NoGroups)

\* whether r can match without consuming a character
RECURSIVE Nullable(_)
Nullable(r) ==
    CASE r.t \in {"set", "nset"} -> FALSE
      [] r.t = "look" -> TRUE
      [] r.t = "cat" -> \A k \in 1..Len(r.rs) : Nullable(r.rs[k])
      [] r.t = "alt" -> \E k \in 1..Len(r.rs) : Nullable(r.rs[k])
      [] r.t = "rep" -> r.min = 0 \/ Nullable(r.r)
      [] r.t = "grp" -> Nullable(r.r)

\* whether a match of r can begin with the character c (the lookarounds are
\* left to Match): the engine tries only the positions that hold such a c
RECURSIVE CanStart(_, _)
CanStart(r, c) ==
    CASE r.t = "set" -> c \in r.cs
      [] r.t = "nset" -> c \notin r.cs
      [] r.t = "look" -> FALSE
      [] r.t = "cat" ->
           \E k \in 1..Len(r.rs) :
               CanStart(r.rs[k], c) /\ \A j \in 1..(k - 1) : Nullable(r.rs[j])
      [] r.t = "alt" -> \E k \in 1..Len(r.rs) : CanStart(r.rs[k], c)
      [] r.t = "rep" -> CanStart(r.r, c)
      [] r.t = "grp" -> CanStart(r.r, c)

\* re.search from position i on: the leftmost match, or NoMatch. None of the
\* patterns below matches the empty string.
NoMatch == [b |-> 0, e |-> 0, g |-> NoGroups]
FirstChars(r, s, i) == {c \in {s[j] : j \in i..Len(s)} : CanStart(r, c)}
Hits(r, s, i, first) == {j \in i..Len(s) : s[j] \in first /\ Match(r, s, j).ok}
Least(hits) == CHOOSE j \in hits : \A k \in hits : j <= k
From(b, m) == [b |-> b, e |-> m.e, g |-> m.g]
MatchAt(r, s, b) == From(b, Match(r, s, b))
Leftmost(r, s, hits) == IF hits = {} THEN NoMatch ELSE MatchAt(r, s, Least(hits))
SearchFrom(r, s, i) == Leftmost(r, s, Hits(r, s, i, FirstChars(r, s, i)))
Search(r, s) == SearchFrom(r, s, 1)

\* the matches of re.finditer from position i on: leftmost, not overlapping;
\* m is the first of them
RECURSIVE FindIter(_, _, _)
RECURSIVE FindNext(_, _, _)
FindNext(r, s, m) == IF m = NoMatch THEN <<>> ELSE <<m>> \o FindIter(r, s, m.e)
FindIter(r, s, i) == FindNext(r, s, SearchFrom(r, s, i))

\* the replacement re.sub makes for the matched text m: a fixed text, or, for
\* JoinSpaced, lambda m: m.group(0).replace(" ", "")
JoinSpaced == <<"lambda">>
Replacement(repl, m) == IF repl = JoinSpaced THEN SelectSeq(m, LAMBDA x : x # " ") ELSE repl

\* re.sub(r, repl, s), from position i on; m is the first match from there
RECURSIVE SubFrom(_, _, _, _)
RECURSIVE SubNext(_, _, _, _, _)
SubNext(r, repl, s, i, m) ==
    IF m = NoMatch THEN SubSeq(s, i, Len(s))
    ELSE SubSeq(s, i, m.b - 1) \o Replacement(repl, SubSeq(s, m.b, m.e - 1))
           \o SubFrom(r, repl, s, m.e)
SubFrom(r, repl, s, i) == SubNext(r, repl, s, i, SearchFrom(r, s, i))
ReSub(r, repl, s) == SubFrom(r, repl, s, 1)

\* the text of group n of a match
GroupText(s, m, n) == SubSeq(s, m.g[n][1], m.g[n][2] - 1)

(***************************************************************************)
(* normalize                                                               *)
(***************************************************************************)
\* unicodedata.normalize("NFKC", c) of one character
NFKC(c) ==
    CASE c = "NBSP" -> <<" ">>
      [] c = "ELLIPSIS" -> <<".", ".", ".">>
      [] OTHER -> <<c>>

\* unicodedata.normalize("NFKC", txt)
RECURSIVE NFKCText(_)
NFKCText(s) ==
    IF s = <<>> THEN <<>>
    ELSE IF Len(s) = 1 THEN NFKC(s[1])
    ELSE LET h == Len(s) \div 2
         IN NFKCText(SubSeq(s, 1, h)) \o NFKCText(SubSeq(s, h + 1, Len(s)))

\* str.replace(c, "")
Remove(c, s) == SelectSeq(s, LAMBDA x : x # c)
\* str.replace(c, d)
Replace(c, d, s) == [k \in 1..Len(s) |-> IF s[k] = c THEN d ELSE s[k]]

\* str.strip()
RECURSIVE LStrip(_)
LStrip(s) == IF s # <<>> /\ Head(s) \in Whitespace THEN LStrip(Tail(s)) ELSE s
RECURSIVE RStrip(_)
RStrip(s) ==
    IF s # <<>> /\ s[Len(s)] \in Whitespace THEN RStrip(SubSeq(s, 1, Len(s) - 1)) ELSE s
Strip(s) == RStrip(LStrip(s))

DOT_RUN == Rep(In(DotLike), 2, -1, TRUE)
WS_RUN == Plus(In(Whitespace))
\* (?<=\w)\.(?=\w)
InnerDot == Cat(<<Look(FALSE, FALSE, WordChars), In({"."}), Look(TRUE, FALSE, WordChars)>>)
\* (?:[A-Za-z]\s+){2,}[A-Za-z]
SpacedLetters == Cat(<<Rep(Cat(<<In(Letters), Plus(In(Whitespace))>>), 2, -1, TRUE), In(Letters)>>)
\* (?<![\d\.\-])(?:\d\s+){1,}\d(?![\.\-])
SpacedDigits ==
    Cat(<<Look(FALSE, TRUE, Digits \cup {".", "-"}),
          Rep(Cat(<<In(Digits), Plus(In(Whitespace))>>), 1, -1, TRUE),
          In(Digits),
          Look(TRUE, TRUE, {".", "-"})>>)

normalize(txt) ==
    IF txt = <<>> THEN <<>>
    ELSE LET t0 == NFKCText(txt)
             t1 == Remove("ZWS", t0)
             t2 == Replace("NBSP", " ", t1)
             t3 == ReSub(DOT_RUN, <<" ">>, t2)
             t4 == ReSub(InnerDot, <<>>, t3)
             t5 == ReSub(SpacedLetters, JoinSpaced, t4)
             t6 == ReSub(SpacedDigits, JoinSpaced, t5)
         IN Strip(ReSub(WS_RUN, <<" ">>, t6))

(***************************************************************************)
(* normalize applied to every short text, once and again.                  *)
(***************************************************************************)
MaxLen == 4
Sigma == {"a", "1", ".", ",", "-", " ", "\t", "ZWS"}

RECURSIVE Texts(_)
Texts(n) ==
    IF n = 0 THEN {<<>>}
    ELSE LET shorter == Texts(n - 1)
         IN shorter \cup {Append(t, c) : t \in {u \in shorter : Len(u) = n - 1}, c \in Sigma}

NormInit ==
    /\ n_pc = "raw"
    /\ n_in \in Texts(MaxLen)
    /\ n_out = <<>>

NormIdle == n_pc = "off" /\ n_in = <<>> /\ n_out = <<>>

\* txt = normalize(raw)
Normalize ==
    /\ n_pc = "raw"
    /\ n_out' = normalize(n_in)
    /\ n_pc' = "once"
    /\ UNCHANGED <<n_in, svars, bvars, cvars>>

\* normalize(normalize(raw))
NormalizeAgain ==
    /\ n_pc = "once"
    /\ n_out' = normalize(n_out)
    /\ n_pc' = "twice"
    /\ UNCHANGED <<n_in, svars, bvars, cvars>>

NormNext == Normalize \/ NormalizeAgain

(***************************************************************************)
(* text_for_llm                                                            *)
(***************************************************************************)
SnippetLimit == 8000

KEY_LINES ==
    Alt(<<ILit(<<"i", "n", "v", "o", "i", "c", "e">>),
          ILit(<<"s", "u", "m", "m", "a", "r", "y", " ", "f", "o", "r">>),
          ILit(<<"b", "i", "l", "l", "i", "n", "g", " ", "i", "d">>),
          ILit(<<"d", "o", "m", "a", "i", "n", " ", "n", "a", "m", "e">>),
          ILit(<<"s", "u", "b", "t", "o", "t", "a", "l">>),
          ILit(<<"t", "o", "t", "a", "l", " ", "i", "n", " ", "e", "u", "r">>),
          ILit(<<"v", "a", "t">>),
          ILit(<<"g", "o", "o", "g", "l", "e">>),
          ILit(<<"w", "o", "r", "k", "s", "p", "a", "c", "e">>),
          ILit(<<"c", "l", "o", "u", "d">>)>>)

\* the line boundaries of str.splitlines()
LineBreaks == {"\n", "\r"}

\* str.splitlines()
RECURSIVE SplitLines(_)
SplitLines(s) ==
    IF s = <<>> THEN <<>>
    ELSE LET brs == {i \in 1..Len(s) : s[i] \in LineBreaks}
         IN IF brs = {} THEN <<s>>
            ELSE LET b == CHOOSE i \in brs : \A j \in brs : i <= j
                     w == IF s[b] = "\r" /\ b < Len(s) /\ s[b + 1] = "\n" THEN 2 ELSE 1
                 IN <<SubSeq(s, 1, b - 1)>> \o SplitLines(SubSeq(s, b + w, Len(s)))

\* sep.join(lines)
RECURSIVE Join(_, _)
Join(sep, lines) ==
    IF lines = <<>> THEN <<>>
    ELSE IF Len(lines) = 1 THEN lines[1]
    ELSE lines[1] \o sep \o Join(sep, Tail(lines))

\* s[:n]
Prefix(s, n) == SubSeq(s, 1, IF Len(s) < n THEN Len(s) ELSE n)

\* KEY_LINES.search(ln)
HasKeyword(ln) == Search(KEY_LINES, ln) # NoMatch

\* [ln.strip() for ln in full_text.splitlines() if ln.strip()]
StrippedLines(full_text) ==
    LET all == SplitLines(full_text)
        stripped == [k \in 1..Len(all) |-> Strip(all[k])]
    IN SelectSeq(stripped, LAMBDA ln : ln # <<>>)

\* text_for_llm without the keyword filter on the lines it keeps
text_for_llm_unfiltered(full_text) ==
    Prefix(Join(<<"\n">>, StrippedLines(full_text)), SnippetLimit)

\* "\n".join(keep) if keep else full_text
JoinedOr(keep, full_text) == IF keep # <<>> THEN Join(<<"\n">>, keep) ELSE full_text

text_for_llm(full_text) ==
    Prefix(JoinedOr(SelectSeq(StrippedLines(full_text), HasKeyword), full_text), SnippetLimit)

(***************************************************************************)
(* PATTERNS and extract_invoice of parse_invoices.py                       *)
(***************************************************************************)
\* Python's None, and a value that is not None
None == <<>>
Some(v) == <<v>>

WS == In(Whitespace)
\* [:\s]*
ColonOrSpace == Star(In({":"} \cup Whitespace))
\* [0-9]+[.,][0-9]{2}
Amount == Cat(<<Plus(In(Digits)), In({".", ","}), Rep(In(Digits), 2, 2, TRUE)>>)
\* [A-Za-z0-9.-]+\.[A-Za-z]{2,}
DomainToken ==
    Cat(<<Plus(In(Letters \cup Digits \cup {".", "-"})), In({"."}), Rep(In(Letters), 2, -1, TRUE)>>)
\* [0-9]{1,2}\s+[A-Za-z]{3}\s+\d{4}
DateToken ==
    Cat(<<Rep(In(Digits), 1, 2, TRUE), Plus(WS), Rep(In(Letters), 3, 3, TRUE), Plus(WS),
          Rep(In(Digits), 4, 4, TRUE)>>)
\* <label>\s+in\s+EUR[:\s]*(euro sign)?\s*([0-9]+[.,][0-9]{2})
AmountInEUR(label) ==
    Cat(<<ILit(label), Plus(WS), ILit(<<"i", "n">>), Plus(WS), ILit(<<"E", "U", "R">>),
          ColonOrSpace, Opt(In({"EURO"})), Star(WS), Group(1, Amount)>>)

PATTERNS ==
    [ invoice_number |->
        Cat(<<ILit(<<"I", "n", "v", "o", "i", "c", "e">>), Star(WS),
              ILit(<<"n", "u", "m", "b", "e", "r">>), ColonOrSpace,
              Group(1, Rep(In(Digits), 6, -1, TRUE))>>),
      invoice_date |->
        Cat(<<ILit(<<"S", "u", "m", "m", "a", "r", "y">>), Plus(WS),
              ILit(<<"f", "o", "r">>), Plus(WS), Group(1, DateToken),
              Star(WS), In({"-"}), Star(WS), Group(2, DateToken)>>),
      billing_id |->
        Cat(<<ILit(<<"B", "i", "l", "l", "i", "n", "g">>), Star(WS),
              ILit(<<"I", "D">>), ColonOrSpace,
              Group(1, Rep(In(Digits \cup {"-"}), 6, -1, TRUE))>>),
      domain |->
        Cat(<<ILit(<<"D", "o", "m", "a", "i", "n">>), Star(WS),
              ILit(<<"n", "a", "m", "e">>), ColonOrSpace, Group(1, DomainToken)>>),
      subtotal |-> AmountInEUR(<<"S", "u", "b", "t", "o", "t", "a", "l">>),
      vat |->
        Cat(<<ILit(<<"V", "A", "T">>), Star(WS), In({"("}), Rep(NotIn({"\n"}), 0, -1, FALSE),
              In({")"}), Star(WS), Opt(In({"EURO"})), Star(WS), Group(1, Amount)>>),
      total_eur |-> AmountInEUR(<<"T", "o", "t", "a", "l">>),
      supplier |->
        Alt(<<Cat(<<ILit(<<"G", "o", "o", "g", "l", "e">>), Plus(WS),
                    ILit(<<"C", "l", "o", "u", "d">>), Plus(WS),
                    ILit(<<"E", "M", "E", "A">>), Plus(WS),
                    ILit(<<"L", "i", "m", "i", "t", "e", "d">>)>>),
              Cat(<<ILit(<<"G", "o", "o", "g", "l", "e">>), Plus(WS),
                    ILit(<<"W", "o", "r", "k", "s", "p", "a", "c", "e">>)>>)>>),
      supplier_vat |->
        Cat(<<ILit(<<"V", "A", "T">>), Plus(WS),
              ILit(<<"n", "u", "m", "b", "e", "r">>), ColonOrSpace,
              Group(1, Plus(In(Letters \cup Digits)))>>),
      customer_name |->
        Cat(<<ILit(<<"B", "i", "l", "l">>), Plus(WS), ILit(<<"t", "o">>), Plus(WS),
              Group(1, Plus(In(Letters \cup Whitespace)))>>),
      customer_domain |->
        Cat(<<ILit(<<"B", "i", "l", "l">>), Plus(WS), ILit(<<"t", "o">>),
              Rep(NotIn({}), 0, -1, FALSE), In({"\n"}), Group(1, DomainToken)>>) ]

\* pattern.findall(text) of a pattern with one group: the text of group 1 of
\* every match
FindAll(r, s) ==
    LET ms == FindIter(r, s, 1) IN [k \in 1..Len(ms) |-> GroupText(s, ms[k], 1)]

\* m.group(n) if m else None
GroupOrNone(s, m, n) == IF m = NoMatch THEN None ELSE Some(GroupText(s, m, n))

DigitValue(c) == CHOOSE d \in 0..9 : <<"0", "1", "2", "3", "4", "5", "6", "7", "8", "9">>[d + 1] = c
RECURSIVE DigitsValue(_)
DigitsValue(ds) ==
    IF ds = <<>> THEN 0
    ELSE 10 * DigitsValue(SubSeq(ds, 1, Len(ds) - 1)) + DigitValue(ds[Len(ds)])

\* float(t.replace(",", ".")) of an amount with two decimals, in hundredths
FloatOfAmount(t) ==
    LET u == [k \in 1..Len(t) |-> IF t[k] = "," THEN "." ELSE t[k]]
        dot == CHOOSE k \in 1..Len(u) : u[k] = "."
    IN 100 * DigitsValue(SubSeq(u, 1, dot - 1)) + DigitsValue(SubSeq(u, dot + 1, Len(u)))

\* raw = "\n".join((p.extract_text() or "") for p in pdf.pages)
RawText(pdf) ==
    Join(<<"\n">>, [k \in 1..Len(pdf.pages) |->
                      IF pdf.pages[k] = None THEN <<>> ELSE pdf.pages[k][1]])

\* m.group(1) + " - " + m.group(2) if m else None
DateRange(s, m) ==
    IF m # NoMatch
    THEN Some(GroupText(s, m, 1) \o <<" ", "-", " ">> \o GroupText(s, m, 2))
    ELSE None

\* data as extract_invoice creates it
NewData ==
    [invoice_number |-> None, invoice_date |-> None, billing_id |-> None,
     domain |-> None, total_eur |-> None, supplier |-> None, error |-> None]

\* data after the four searches for invoice_number, invoice_date, billing_id
\* and domain
SearchedData(text) ==
    [invoice_number |-> GroupOrNone(text, Search(PATTERNS["invoice_number"], text), 1),
     invoice_date |-> DateRange(text, Search(PATTERNS["invoice_date"], text)),
     billing_id |-> GroupOrNone(text, Search(PATTERNS["billing_id"], text), 1),
     domain |-> GroupOrNone(text, Search(PATTERNS["domain"], text), 1),
     total_eur |-> None, supplier |-> None, error |-> None]

\* data["total_eur"] = float(totals[-1].replace(",", ".")) if totals
WithTotal(data, totals) ==
    IF totals # <<>>
    THEN [data EXCEPT !.total_eur = Some(FloatOfAmount(totals[Len(totals)]))]
    ELSE data

\* data["supplier"] = m.group(0) if m else None
WithSupplier(data, text, m) ==
    [data EXCEPT !.supplier = IF m # NoMatch THEN Some(SubSeq(text, m.b, m.e - 1)) ELSE None]

\* extract_invoice(pdf_path), text being normalize(raw): the exception it
\* raises or "none", and its locals text and data when it ends. dbg is what
\* the debugger that pdb.set_trace() opens is told: to continue, or to quit
\* (BdbQuit). PATTERNS has no key "totals": PATTERNS["totals"] raises KeyError.
extract_invoice(pdf, text, dbg) ==
    IF ~pdf.readable
    THEN [raised |-> "open_error", dbg |-> "none", text |-> <<>>, data |-> None]
    ELSE IF dbg = "quit"
    THEN [raised |-> "BdbQuit", dbg |-> dbg, text |-> text, data |-> Some(NewData)]
    ELSE IF "totals" \notin DOMAIN PATTERNS
    THEN [raised |-> "KeyError", dbg |-> dbg, text |-> text, data |-> Some(SearchedData(text))]
    ELSE [raised |-> "none", dbg |-> dbg, text |-> text,
          data |-> Some(WithSupplier(WithTotal(SearchedData(text),
                                               FindAll(PATTERNS["totals"], text)),
                                     text, Search(PATTERNS["supplier"], text)))]

(***************************************************************************)
(* The snippet of a document text: text_for_llm called on a text as it is, *)
(* and as extract_from_pdf calls it, on the output of normalize.           *)
(***************************************************************************)
MaxLines == 2

SnippetLines ==
    { <<"v", "a", "t", " ", "1">>,
      <<"a", "b", "c">>,
      <<>>,
      <<" ", "C", "l", "o", "u", "d", "\t">>,
      <<"v", " ", "a", " ", "t">> }

\* a filler before the first line: none, or one that pushes the end of the
\* text to or over the limit
Pads == {0, SnippetLimit - 10, SnippetLimit}

Repeat(c, n) == [k \in 1..n |-> c]

RECURSIVE LineSeqs(_)
LineSeqs(n) ==
    IF n = 0 THEN {<<>>}
    ELSE LET shorter == LineSeqs(n - 1)
         IN shorter \cup {Append(t, l) : t \in {u \in shorter : Len(u) = n - 1}, l \in SnippetLines}

SnippetTexts ==
    {Repeat("#", pad) \o Join(<<"\n">>, ls) : pad \in Pads, ls \in LineSeqs(MaxLines) \ {<<>>}}

SnipInit ==
    /\ s_pc = "start"
    /\ s_raw \in SnippetTexts
    /\ s_full = <<>>
    /\ s_snippet = <<>>

SnipIdle == s_pc = "off" /\ s_raw = <<>> /\ s_full = <<>> /\ s_snippet = <<>>

\* snippet = text_for_llm(full_text)
CallTextForLlm ==
    /\ s_pc = "start"
    /\ s_full' = s_raw
    /\ s_snippet' = text_for_llm(s_raw)
    /\ s_pc' = "direct"
    /\ UNCHANGED <<s_raw, nvars, bvars, cvars>>

\* norm = normalize(raw); snippet = text_for_llm(norm)
SnippetFromPdf ==
    /\ s_pc = "start"
    /\ s_full' = normalize(s_raw)
    /\ s_snippet' = text_for_llm(s_full')
    /\ s_pc' = "pipeline"
    /\ UNCHANGED <<s_raw, nvars, bvars, cvars>>

SnipNext == CallTextForLlm \/ SnippetFromPdf

(***************************************************************************)
(* The batch drivers: main of ai_invoice_extract.py and of                 *)
(* parse_invoices.py, run on the documents that discover_pdfs found. The   *)
(* path of the k-th document is k.                                         *)
(***************************************************************************)
MaxDocs == 2

\* the documents: whether pdfplumber.open succeeds, and what extract_text
\* returns for each page (None for a page without a text layer)
DocKinds ==
    { [readable |-> FALSE, pages |-> <<>>],
      [readable |-> TRUE,
       pages |-> <<Some(<<"I", "n", "v", "o", "i", "c", "e", " ", "n", "u", "m", "b", "e", "r", ":", " ", "1", "2", "3", "4", "5", "6">>),
                   Some(<<"T", "o", "t", "a", "l", " ", "i", "n", " ", "E", "U", "R", " ", "1", "0", ".", "0", "0", "\n", "T", "o", "t", "a", "l", " ", "i", "n", " ", "E", "U", "R", " ", "6", ",", "9", "0">>)>>],
      [readable |-> TRUE,
       pages |-> <<Some(<<"T", "o", "t", "a", "l", " ", "i", "n", " ", "E", "U", "R", " ", "6", ".", "9", "0">>),
                   Some(<<"D", "o", "m", "a", "i", "n", " ", "n", "a", "m", "e", ":", " ", "a", ".", "b", "e">>)>>],
      [readable |-> TRUE,
       pages |-> <<Some(<<"B", "i", "l", "l", " ", "t", "o", " ", "J", "o", "\n", "b", ".", "n", "l">>), None>>] }

RECURSIVE DocSeqs(_)
DocSeqs(n) ==
    IF n = 0 THEN {<<>>}
    ELSE LET shorter == DocSeqs(n - 1)
         IN shorter \cup {Append(t, d) : t \in {u \in shorter : Len(u) = n - 1}, d \in DocKinds}

\* pdfs = discover_pdfs(input_path, recursive)
discover_pdfs ==
    {[k \in 1..Len(ds) |-> [path |-> k, readable |-> ds[k].readable, pages |-> ds[k].pages]] :
        ds \in DocSeqs(MaxDocs)}

AiFieldnames ==
    <<"source_file", "supplier", "supplier_vat", "invoice_number",
      "invoice_date_start", "invoice_date_end", "billing_id", "domain",
      "subtotal_eur", "vat_percent", "vat_amount_eur", "total_eur", "currency", "error">>
RegexFieldnames ==
    <<"file", "invoice_number", "invoice_date", "billing_id", "domain", "total_eur",
      "supplier", "error">>
Range(seq) == {seq[k] : k \in 1..Len(seq)}

\* the properties of INVOICE_SCHEMA, and the required ones
SchemaKeys == Range(AiFieldnames) \ {"error"}
SchemaRequired == {"invoice_number", "total_eur", "source_file"}

\* what client.chat.completions.create and json.loads give: an exception, or
\* the object the model answered. The model names a source file of its own
\* (path 0); it answers every property, null where it may, or only the
\* required ones.
LlmContents ==
    { [k \in SchemaKeys |->
         CASE k = "invoice_number" -> Some("123456")
           [] k = "total_eur" -> Some(690)
           [] k = "source_file" -> Some(0)
           [] k = "currency" -> Some("EUR")
           [] OTHER -> None],
      [k \in SchemaRequired |->
         CASE k = "invoice_number" -> Some("123456")
           [] k = "total_eur" -> Some(690)
           [] OTHER -> Some(0)] }
NoContent == [k \in {} |-> None]
LlmOutcomes ==
    {[raised |-> TRUE, content |-> NoContent]} \cup {[raised |-> FALSE, content |-> c] : c \in LlmContents}

\* extract_with_openai without data["source_file"] = source_file
extract_with_openai_as_answered(snippet, source_file, llm) ==
    IF llm.raised
    THEN [raised |-> "api_error", sent |-> Some(snippet), data |-> NoContent]
    ELSE [raised |-> "none", sent |-> Some(snippet), data |-> llm.content]

\* extract_with_openai(snippet, source_file), llm being what the call to the
\* model comes to: data = json.loads(content); data["source_file"] =
\* source_file; return data
extract_with_openai(snippet, source_file, llm) ==
    IF llm.raised
    THEN [raised |-> "api_error", sent |-> Some(snippet), data |-> NoContent]
    ELSE [raised |-> "none", sent |-> Some(snippet),
          data |-> [k \in DOMAIN llm.content \cup {"source_file"} |->
                      IF k = "source_file" THEN Some(source_file) ELSE llm.content[k]]]

\* extract_from_pdf(pdf_path), norm being normalize(raw): the exception it
\* raises or "none", the snippet it sent to the model, and the record it
\* returns
extract_from_pdf(pdf, norm, llm) ==
    IF ~pdf.readable
    THEN [raised |-> "open_error", sent |-> None, data |-> NoContent]
    ELSE extract_with_openai(text_for_llm(norm), pdf.path, llm)

\* the record of the except branch of main of ai_invoice_extract.py
AiErrorRecord(f, e) ==
    [k \in Range(AiFieldnames) |->
        CASE k = "currency" -> Some("EUR")
          [] k = "source_file" -> Some(f)
          [] k = "error" -> Some(e)
          [] OTHER -> None]

\* for k in fieldnames: r.setdefault(k, None)
SetDefaults(r, fieldnames) ==
    [k \in DOMAIN r \cup Range(fieldnames) |-> IF k \in DOMAIN r THEN r[k] ELSE None]

\* the row csv.DictWriter writes for r: "" for a key that r lacks
DictRow(r, fieldnames) ==
    [k \in Range(fieldnames) |-> IF k \in DOMAIN r THEN r[k] ELSE Some("")]

\* not r.get("error")
NoError(r) == "error" \notin DOMAIN r \/ r["error"] \in {None, Some("")}

BatchInit ==
    /\ b_script \in {"ai", "regex"}
    /\ b_pdfs \in discover_pdfs
    /\ b_pc = "start"
    /\ b_i = 1
    /\ b_rows = <<>>
    /\ b_ok = 0
    /\ b_calls = <<>>
    /\ b_frame = None
    /\ b_exc = None
    /\ b_out = None
    /\ b_summary = None
    /\ b_raw = <<>>
    /\ b_text = <<>>

BatchIdle ==
    /\ b_script = "off"
    /\ b_pdfs = <<>>
    /\ b_pc = "off"
    /\ b_i = 1
    /\ b_rows = <<>>
    /\ b_ok = 0
    /\ b_calls = <<>>
    /\ b_frame = None
    /\ b_exc = None
    /\ b_out = None
    /\ b_summary = None
    /\ b_raw = <<>>
    /\ b_text = <<>>

\* if not pdfs: sys.exit(2)
Discover ==
    /\ b_pc = "start"
    /\ b_pc' = IF b_pdfs = <<>> THEN "exit2" ELSE "loop"
    /\ UNCHANGED <<b_script, b_pdfs, b_i, b_rows, b_ok, b_calls, b_frame, b_exc, b_out,
                   b_summary, b_raw, b_text, nvars, svars, cvars>>

\* one round of the loop of main of ai_invoice_extract.py: try
\* extract_from_pdf, count it, or build the error record; append
AiProcessNext ==
    /\ b_script = "ai"
    /\ b_pc = "loop"
    /\ b_i <= Len(b_pdfs)
    /\ b_raw' = IF b_pdfs[b_i].readable THEN RawText(b_pdfs[b_i]) ELSE <<>>
    /\ b_text' = normalize(b_raw')
    /\ \E llm \in LlmOutcomes :
         /\ b_frame' = Some(extract_from_pdf(b_pdfs[b_i], b_text', llm))
         /\ b_calls' = IF b_frame'[1].sent = None THEN b_calls
                       ELSE Append(b_calls, [doc |-> b_i, raised |-> llm.raised,
                                             content |-> llm.content])
    /\ b_rows' = Append(b_rows, IF b_frame'[1].raised = "none" THEN b_frame'[1].data
                                ELSE AiErrorRecord(b_pdfs[b_i].path, b_frame'[1].raised))
    /\ b_ok' = IF b_frame'[1].raised = "none" THEN b_ok + 1 ELSE b_ok
    /\ b_i' = b_i + 1
    /\ UNCHANGED <<b_script, b_pdfs, b_pc, b_exc, b_out, b_summary, nvars, svars, cvars>>

\* one round of the loop of main of parse_invoices.py:
\* rows.append(extract_invoice(str(pdf))), with no try around it, so that an
\* exception ends main
RegexProcessNext ==
    /\ b_script = "regex"
    /\ b_pc = "loop"
    /\ b_i <= Len(b_pdfs)
    /\ b_raw' = IF b_pdfs[b_i].readable THEN RawText(b_pdfs[b_i]) ELSE <<>>
    /\ b_text' = normalize(b_raw')
    /\ \E dbg \in {"continue", "quit"} :
         b_frame' = Some(extract_invoice(b_pdfs[b_i], b_text', dbg))
    /\ IF b_frame'[1].raised = "none"
       THEN /\ b_rows' = Append(b_rows, b_frame'[1].data[1])
            /\ b_i' = b_i + 1
            /\ UNCHANGED <<b_pc, b_exc>>
       ELSE /\ b_pc' = "crashed"
            /\ b_exc' = Some(b_frame'[1].raised)
            /\ UNCHANGED <<b_rows, b_i>>
    /\ UNCHANGED <<b_script, b_pdfs, b_ok, b_calls, b_out, b_summary, nvars, svars, cvars>>

\* after the loop: the rows are written under the fieldnames of the script
\* (ai_invoice_extract.py sets the defaults in the rows first), and the summary
\* is printed (parse_invoices.py counts the rows without error here)
WriteCsv ==
    /\ b_pc = "loop"
    /\ b_i > Len(b_pdfs)
    /\ IF b_script = "ai"
       THEN /\ b_rows' = [k \in 1..Len(b_rows) |-> SetDefaults(b_rows[k], AiFieldnames)]
            /\ b_out' = Some([k \in 1..Len(b_rows) |-> DictRow(b_rows'[k], AiFieldnames)])
            /\ b_ok' = b_ok
       ELSE /\ b_rows' = b_rows
            /\ b_out' = Some([k \in 1..Len(b_rows) |-> DictRow(b_rows[k], RegexFieldnames)])
            /\ b_ok' = Cardinality({k \in 1..Len(b_rows) : NoError(b_rows[k])})
    /\ b_summary' = Some(<<b_ok', Len(b_rows)>>)
    /\ b_pc' = "done"
    /\ UNCHANGED <<b_script, b_pdfs, b_i, b_calls, b_frame, b_exc, b_raw, b_text,
                   nvars, svars, cvars>>

BatchNext == Discover \/ AiProcessNext \/ RegexProcessNext \/ WriteCsv


(***************************************************************************)
(* extract_invoice of parse_csv_invoices.py, one row of the file at a      *)
(* time. A row is the sequence of its cells.                               *)
(***************************************************************************)
MaxRows == 4

\* str.lower()
Lower(s) ==
    [k \in 1..Len(s) |->
        IF s[k] \in Uppers THEN LowerAlpha[CHOOSE j \in 1..26 : UpperAlpha[j] = s[k]] ELSE s[k]]

CsvRowKinds ==
    { <<>>,
      << <<" ">>, <<>> >>,
      << <<" ", "I", "n", "v", "o", "i", "c", "e", " ", "N", "u", "m", "b", "e", "r">>,
         <<" ", "4", "2", " ">> >>,
      << <<"i", "n", "v", "o", "i", "c", "e", " ", "d", "a", "t", "e">> >>,
      << <<"I", "n", "v", "o", "i", "c", "e", " ", "a", "m", "o", "u", "n", "t">>, <<"9">> >>,
      << <<"x", ".", "b", "e", " ">>, <<"1">> >>,
      << <<" ">>, <<"7">> >> }

RECURSIVE CsvFiles(_)
CsvFiles(n) ==
    IF n = 0 THEN {<<>>}
    ELSE LET shorter == CsvFiles(n - 1)
         IN shorter \cup {Append(t, r) : t \in {u \in shorter : Len(u) = n - 1}, r \in CsvRowKinds}

\* not row or all(not c.strip() for c in row)
IsBlank(row) == row = <<>> \/ \A k \in 1..Len(row) : Strip(row[k]) = <<>>

\* a row of the section "meta": key = row[0].strip().lower(); value =
\* row[1].strip() if len(row) > 1 else ""; the field the key names is set
MetaRow(st, row, key, value) ==
    CASE key = <<"i", "n", "v", "o", "i", "c", "e", " ", "n", "u", "m", "b", "e", "r">> ->
           [st EXCEPT !.data.invoice_number = Some(value)]
      [] key = <<"i", "n", "v", "o", "i", "c", "e", " ", "d", "a", "t", "e">> ->
           [st EXCEPT !.data.invoice_date = Some(value)]
      [] key = <<"b", "i", "l", "l", "i", "n", "g", " ", "i", "d">> ->
           [st EXCEPT !.data.billing_id = Some(value)]
      [] key = <<"i", "n", "v", "o", "i", "c", "e", " ", "a", "m", "o", "u", "n", "t">> ->
           [st EXCEPT !.data.invoice_amount = Some(value)]
      [] OTHER -> st

\* the body of the loop over the rows without the header row: the first row of
\* the items is taken for a domain row
LoopBodyNoHeader(st, row) ==
    IF IsBlank(row) THEN [st EXCEPT !.section = "items", !.header = None]
    ELSE IF st.section = "meta"
    THEN MetaRow(st, row, Lower(Strip(row[1])), IF Len(row) > 1 THEN Strip(row[2]) ELSE <<>>)
    ELSE IF Strip(row[1]) # <<>>
    THEN [st EXCEPT !.data.domain = Some(Strip(row[1])), !.stop = TRUE]
    ELSE st

\* the body of the loop over the rows, on the locals section, header and data;
\* stop is the break
LoopBody(st, row) ==
    IF IsBlank(row) THEN [st EXCEPT !.section = "items", !.header = None]
    ELSE IF st.section = "meta"
    THEN MetaRow(st, row, Lower(Strip(row[1])), IF Len(row) > 1 THEN Strip(row[2]) ELSE <<>>)
    ELSE IF st.header = None THEN [st EXCEPT !.header = Some(row)]
    ELSE IF Strip(row[1]) # <<>>
    THEN [st EXCEPT !.data.domain = Some(Strip(row[1])), !.stop = TRUE]
    ELSE st

CsvInit ==
    /\ \/ c_readable = TRUE /\ c_rows \in CsvFiles(MaxRows)
       \/ c_readable = FALSE /\ c_rows = <<>>
    /\ c_pc = "open"
    /\ c_pos = 0
    /\ c_section = "unset"
    /\ c_header = None
    /\ c_data = [file |-> Some(1), invoice_number |-> None, invoice_date |-> None,
                 billing_id |-> None, invoice_amount |-> None, domain |-> None,
                 error |-> None]

CsvIdle ==
    /\ c_readable = FALSE
    /\ c_rows = <<>>
    /\ c_pc = "off"
    /\ c_pos = 0
    /\ c_section = "unset"
    /\ c_header = None
    /\ c_data = <<>>

\* open(csv_path); section = "meta"; header = None -- or the exception handler
OpenCsv ==
    /\ c_pc = "open"
    /\ IF c_readable
       THEN /\ c_section' = "meta"
            /\ c_pc' = "rows"
            /\ UNCHANGED c_data
       ELSE /\ c_data' = [c_data EXCEPT !.error = Some("parse_error")]
            /\ c_pc' = "returned"
            /\ UNCHANGED c_section
    /\ UNCHANGED <<c_readable, c_rows, c_pos, c_header, nvars, svars, bvars>>

\* one round of for row in reader; the break returns data
ReadRow ==
    /\ c_pc = "rows"
    /\ c_pos < Len(c_rows)
    /\ LET st == LoopBody([section |-> c_section, header |-> c_header, data |-> c_data,
                           stop |-> FALSE], c_rows[c_pos + 1])
       IN /\ c_section' = st.section
          /\ c_header' = st.header
          /\ c_data' = st.data
          /\ c_pc' = IF st.stop THEN "returned" ELSE "rows"
    /\ c_pos' = c_pos + 1
    /\ UNCHANGED <<c_readable, c_rows, nvars, svars, bvars>>

\* the reader is exhausted: return data
ReturnData ==
    /\ c_pc = "rows"
    /\ c_pos = Len(c_rows)
    /\ c_pc' = "returned"
    /\ UNCHANGED <<c_readable, c_rows, c_pos, c_section, c_header, c_data, nvars, svars, bvars>>

CsvNext == OpenCsv \/ ReadRow \/ ReturnData


(***************************************************************************)
(* Specifications                                                          *)
(***************************************************************************)
InitNorm == NormInit /\ SnipIdle /\ BatchIdle /\ CsvIdle
SpecNorm == InitNorm /\ [][NormNext]_vars

InitSnippet == SnipInit /\ NormIdle /\ BatchIdle /\ CsvIdle
SpecSnippet == InitSnippet /\ [][SnipNext]_vars

InitBatch == BatchInit /\ NormIdle /\ SnipIdle /\ CsvIdle
SpecBatch == InitBatch /\ [][BatchNext]_vars

InitCsv == CsvInit /\ NormIdle /\ SnipIdle /\ BatchIdle
SpecCsv == InitCsv /\ [][CsvNext]_vars

(***************************************************************************)
(* Properties of normalize.                                                *)
(***************************************************************************)
\* t occurs in s as a contiguous piece
Contains(s, t) == \E i \in 1..(Len(s) - Len(t) + 1) : SubSeq(s, i, i + Len(t) - 1) = t

\* \d+[.,]\d{2}
StrictDecimal == Cat(<<Plus(In(Digits)), In({".", ","}), Rep(In(Digits), 2, 2, TRUE)>>)

\* the tokens of the form digits, separator, two digits that a text holds
DecimalTokens(s) ==
    LET ms == FindIter(StrictDecimal, s, 1)
    IN {SubSeq(s, ms[k].b, ms[k].e - 1) : k \in 1..Len(ms)}

\* single digits separated by single spaces: "5 0 1"
IsSpacedRun(s) ==
    /\ Len(s) >= 3
    /\ Len(s) % 2 = 1
    /\ \A k \in 1..Len(s) : IF k % 2 = 1 THEN s[k] \in Digits ELSE s[k] = " "

\* C2: normalize is idempotent, normalize(normalize(x)) = normalize(x), for every
\* input x, tabs and newlines between single letters or digits included.
C2_Idempotent == n_pc = "twice" => n_out = normalize(n_in)

\* C3: every token digits, '.' or ',', two digits of the input is still a piece
\* of normalize's output, separator and fraction digits in place.
C3_DecimalPreserved ==
    n_pc = "once" => \A tok \in DecimalTokens(n_in) : Contains(n_out, tok)

\* C6: normalize joins a run of single digits separated by spaces into one
\* number, and leaves the run as it is when '.', ',' or '-' touches it on either
\* side.
C6_DigitRejoinGuard ==
    n_pc = "once" =>
      /\ IsSpacedRun(n_in) => n_out = Remove(" ", n_in)
      /\ \A c \in {".", ",", "-"} :
           /\ (Len(n_in) > 1 /\ Head(n_in) = c /\ IsSpacedRun(Tail(n_in))) => n_out = n_in
           /\ (Len(n_in) > 1 /\ n_in[Len(n_in)] = c
                 /\ IsSpacedRun(SubSeq(n_in, 1, Len(n_in) - 1))) => n_out = n_in

(***************************************************************************)
(* Properties of text_for_llm.                                             *)
(***************************************************************************)
IsPrefixOf(p, s) == Len(p) <= Len(s) /\ SubSeq(s, 1, Len(p)) = p

\* the non-blank lines of a text that hold a keyword, stripped of the white
\* space around them, in their order
KeywordLines(text) == SelectSeq(StrippedLines(text), HasKeyword)

\* the lines of the snippet but the last one
FullLines(snippet) ==
    LET ls == SplitLines(snippet) IN SubSeq(ls, 1, Len(ls) - 1)
LastLine(snippet) ==
    LET ls == SplitLines(snippet) IN ls[Len(ls)]

SnippetBounded == Len(s_snippet) <= SnippetLimit
SnippetIsPrefix ==
    IF KeywordLines(s_full) # <<>>
    THEN IsPrefixOf(s_snippet, Join(<<"\n">>, KeywordLines(s_full)))
    ELSE IsPrefixOf(s_snippet, s_full)

\* C9 as stated: the snippet has at most 8000 characters; it is a prefix of the
\* newline-joined keyword lines, and none of its lines is without a keyword,
\* when some line holds a keyword; otherwise it is a prefix of the full text.
C9_SnippetFilter ==
    s_pc # "start" =>
      /\ SnippetBounded
      /\ SnippetIsPrefix
      /\ KeywordLines(s_full) # <<>> =>
           \A k \in 1..Len(SplitLines(s_snippet)) : HasKeyword(SplitLines(s_snippet)[k])

\* C9 as amended: the same, but the last line of the snippet may be a keyword
\* line cut short by the limit of 8000 characters, and so hold no keyword.
C9_SnippetFilterCut ==
    s_pc # "start" =>
      /\ SnippetBounded
      /\ SnippetIsPrefix
      /\ KeywordLines(s_full) # <<>> =>
           /\ \A k \in 1..Len(FullLines(s_snippet)) : HasKeyword(FullLines(s_snippet)[k])
           /\ \/ HasKeyword(LastLine(s_snippet))
              \/ Len(Join(<<"\n">>, KeywordLines(s_full))) > SnippetLimit

\* two keyword lines were kept, and the limit cut the second one
C9_Witness ==
    /\ s_pc = "direct"
    /\ Len(KeywordLines(s_full)) = 2
    /\ Len(s_snippet) = SnippetLimit
    /\ Len(SplitLines(s_snippet)) = 2
    /\ ~HasKeyword(LastLine(s_snippet))

(***************************************************************************)
(* Properties of the batch drivers.                                        *)
(***************************************************************************)
\* the columns of the output table of the script that runs, and the one of
\* them that names the document
Columns == IF b_script = "regex" THEN Range(RegexFieldnames) ELSE Range(AiFieldnames)
IdColumn == IF b_script = "regex" THEN "file" ELSE "source_file"

\* main has ended, and not because the debugger was told to quit
Ended == b_pc \in {"done", "crashed"} /\ b_exc # Some("BdbQuit")

\* the documents main has called its extract function on
LastDoc == IF b_pc = "crashed" THEN b_i ELSE b_i - 1

\* the amounts that follow "Total in EUR" in the text of a document
DocTotals(pdf) == FindAll(PATTERNS["total_eur"], RawText(pdf))

\* the domain that follows "Domain name:" in the text of a document, and the
\* one on the line after "Bill to"
LabelDomain(pdf) ==
    GroupOrNone(RawText(pdf), Search(PATTERNS["domain"], RawText(pdf)), 1)
BillToDomain(pdf) ==
    GroupOrNone(RawText(pdf), Search(PATTERNS["customer_domain"], RawText(pdf)), 1)

\* C1: whatever documents of a batch fail, main hands one record per document
\* to the writer; the record of a failing document names the document, holds
\* the error and is null elsewhere (the constant currency column left aside),
\* and a failure never ends the batch.
C1_BatchIsolation ==
    Ended =>
      /\ b_out # None
      /\ Len(b_out[1]) = Len(b_pdfs)
      /\ \A k \in 1..Len(b_out[1]) :
           /\ b_out[1][k][IdColumn] = Some(b_pdfs[k].path)
           /\ ~b_pdfs[k].readable => b_out[1][k]["error"] # None
           /\ b_out[1][k]["error"] # None =>
                \A c \in Columns \ {"error", "currency", IdColumn} : b_out[1][k][c] = None

\* C4: for a document whose text holds the "Total in EUR" amount k >= 1 times,
\* normalize and extract_invoice return a record whose total_eur is the value
\* of the last of them, ',' read as the decimal point.
C4_LastTotal ==
    (/\ b_script = "regex"
     /\ b_frame # None
     /\ b_frame[1].dbg = "continue"
     /\ DocTotals(b_pdfs[LastDoc]) # <<>>) =>
      /\ b_frame[1].raised = "none"
      /\ b_frame[1].data[1].total_eur =
           Some(FloatOfAmount(DocTotals(b_pdfs[LastDoc])[Len(DocTotals(b_pdfs[LastDoc]))]))

\* C5: the record of a document whose text holds no "Total in EUR" amount has
\* a non-empty error, and the summary does not count it as a success.
C5_MissingTotalFlagged ==
    (b_script = "regex" /\ Ended) =>
      \A k \in 1..LastDoc :
        (b_pdfs[k].readable /\ DocTotals(b_pdfs[k]) = <<>>) =>
          /\ b_out # None
          /\ k <= Len(b_out[1])
          /\ ~NoError(b_out[1][k])
          /\ b_summary # None
          /\ b_summary[1][1] = Cardinality({j \in 1..Len(b_out[1]) : NoError(b_out[1][j])})

\* C7: every record written has every column of the fixed column list set,
\* null or empty included, the row written holds the values of the record, and
\* the column that names the document holds the path of the document the record
\* was made from.
C7_RecordComplete ==
    b_pc = "done" =>
      /\ b_out # None
      /\ Len(b_out[1]) = Len(b_rows)
      /\ \A k \in 1..Len(b_rows) :
           /\ Columns \subseteq DOMAIN b_rows[k]
           /\ \A c \in Columns : b_out[1][k][c] = b_rows[k][c]
           /\ b_rows[k][IdColumn] = Some(b_pdfs[k].path)

\* a table was written that holds the record of a failed document and the
\* record of an answer of the model that left columns out and named another
\* source file
C7_Witness ==
    /\ b_pc = "done"
    /\ \E k \in 1..Len(b_rows) : b_rows[k]["error"] # None
    /\ \E j \in 1..Len(b_calls) :
         /\ ~b_calls[j].raised
         /\ "supplier" \notin DOMAIN b_calls[j].content
         /\ b_calls[j].content["source_file"] # Some(b_calls[j].doc)
         /\ b_rows[b_calls[j].doc]["supplier"] = None
         /\ b_rows[b_calls[j].doc]["source_file"] = Some(b_calls[j].doc)

\* C8: the domain that extract_invoice finds (it has searched for it when it
\* comes to PATTERNS["totals"]) is the one after "Domain name:" when the text
\* of the document has that label, and the one on the line after "Bill to"
\* when it has not.
C8_DomainStrategy ==
    (b_script = "regex" /\ b_frame # None /\ b_frame[1].raised = "KeyError") =>
      /\ LabelDomain(b_pdfs[LastDoc]) # None =>
           b_frame[1].data[1].domain = LabelDomain(b_pdfs[LastDoc])
      /\ (LabelDomain(b_pdfs[LastDoc]) = None /\ BillToDomain(b_pdfs[LastDoc]) # None) =>
           b_frame[1].data[1].domain = BillToDomain(b_pdfs[LastDoc])

(***************************************************************************)
(* Properties of extract_invoice of parse_csv_invoices.py.                 *)
(***************************************************************************)
MetaFields(data) ==
    <<data.invoice_number, data.invoice_date, data.billing_id, data.invoice_amount>>

\* one of the first n rows is blank
BlankAmong(n) == \E j \in 1..n : IsBlank(c_rows[j])

\* row k comes after a blank row and after the header row that follows it:
\* it is not blank, neither is the row before it, and a blank row comes
\* before that one
IsItemRow(k) ==
    k > 2 /\ ~IsBlank(c_rows[k]) /\ ~IsBlank(c_rows[k - 1]) /\ BlankAmong(k - 2)

\* the item rows whose first cell is not empty
DomainRows == {k \in 1..Len(c_rows) : IsItemRow(k) /\ Strip(c_rows[k][1]) # <<>>}

\* what C10 says of one step
SectionStep ==
    \* the section starts as "meta"
    /\ (c_pc' = "rows" /\ c_pos' = 0) => c_section' = "meta"
    \* it is "items" from the first blank row on, and never "meta" again
    /\ c_pc' \in {"rows", "returned"} /\ c_readable =>
         (c_section' = "items") = BlankAmong(c_pos')
    /\ c_section = "items" => c_section' = "items"
    \* no row after the first blank row changes the four fields
    /\ c_section = "items" => MetaFields(c_data') = MetaFields(c_data)
    \* the row after a blank row changes nothing in data
    /\ (c_pos' = c_pos + 1 /\ c_pos >= 1 /\ IsBlank(c_rows[c_pos])) => c_data' = c_data
    \* domain is set from the first item row whose first cell is not empty
    /\ c_data'.domain # c_data.domain =>
         /\ DomainRows # {}
         /\ c_pos' = Least(DomainRows)
         /\ c_data'.domain = Some(Strip(c_rows[c_pos'][1]))
    \* and then no row is read and nothing is set
    /\ c_data.domain # None => (c_pos' = c_pos /\ c_data' = c_data)

\* what C10 says of the data returned
SectionReturned ==
    (c_pc = "returned" /\ c_readable) =>
      IF DomainRows = {}
      THEN c_data.domain = None /\ c_pos = Len(c_rows)
      ELSE c_data.domain # None /\ c_pos = Least(DomainRows)

\* C10: the section starts as "meta", is "items" from the first blank row on
\* and never "meta" again; after the first blank row no row changes
\* invoice_number, invoice_date, billing_id or invoice_amount; the row after a
\* blank row is skipped; domain is set once, from the first later row whose
\* first cell is not empty, and no row after that one is read.
C10_SectionMachine == [][SectionStep]_vars /\ []SectionReturned

\* data was returned with the domain of an item row, the row before it, an
\* "invoice amount" row, was skipped as the header, and a row was left unread
C10_Witness ==
    /\ c_pc = "returned"
    /\ c_data.domain # None
    /\ c_pos < Len(c_rows)
    /\ c_pos > 2
    /\ Len(c_rows[c_pos - 1]) = 2
    /\ Strip(c_rows[c_pos - 1][2]) = <<"9">>
    /\ c_data.invoice_amount = None

====
